---- MODULE Spec2Model ----
(***************************************************************************)
(* State-machine model of the ArticleRewriter controller of                *)
(* static/js/app.js: the tab switcher, the loading overlay, the            *)
(* notifications, and the two asynchronous workflows refreshBlogs and      *)
(* fetchArticles with the article table and the preview surface.           *)
(*                                                                         *)
(* JavaScript runs one handler at a time: a handler runs from its entry    *)
(* (or from the settling of the promise it awaits) to its next await       *)
(* without interruption.  Each such run is one action of the model.        *)
(***************************************************************************)
EXTENDS Integers, Sequences, FiniteSets, Bags, TLC

VARIABLES
    loaded,           \* DOMContentLoaded has fired (listeners are registered)
    apiKey,           \* this.apiKey
    articles,         \* this.articles
    selectedArticle,  \* this.selectedArticle
    hidden,           \* .tab-content panels: id -> carries class "hidden"
    active,           \* .tab-link controls: index -> carries the active styling
    overlay,          \* number of #loadingOverlay elements in document.body
    options,          \* <option> children of #blogSelect
    rows,             \* <tr> children of #articlesTable tbody
    preview,          \* innerHTML of #articlePreview
    inflight,         \* bag of invocations suspended at an await
    last              \* what the handler run that produced this state did

vars == <<loaded, apiKey, articles, selectedArticle, hidden, active, overlay,
          options, rows, preview, inflight, last>>

(***************************************************************************)
(* Bounds of the model.                                                    *)
(***************************************************************************)
\* invocations suspended at an await at the same time: nothing in the
\* controller keeps a workflow from starting while another is suspended (the
\* buttons stay reachable from the keyboard, and `app` is a global)
MaxInFlight == 2
MaxList == 2       \* length of the articles list in a response body
MaxBlogs == 1      \* length of the blogs list in a response body

(***************************************************************************)
(* The document the controller runs against.                               *)
(***************************************************************************)
\* ids of the .tab-content panels
Panels == {<<"settings">>, <<"articles">>}

\* href of each .tab-link control, as the characters '#' and the rest; the
\* last control points at no panel
TabLinkHref == << <<"#", "settings">>, <<"#", "articles">>,
                  <<"#", "missing">> >>

TabLinks == DOMAIN TabLinkHref

\* String.prototype.replace(pat, ""): drops the first occurrence of pat
RECURSIVE StrReplaceFirst(_, _)
StrReplaceFirst(s, pat) ==
    IF s = <<>> THEN <<>>
    ELSE IF Head(s) = pat THEN Tail(s)
    ELSE <<Head(s)>> \o StrReplaceFirst(Tail(s), pat)

\* document.querySelector(`[href="#${tabId}"]`): first control in tree order
QuerySelectorHref(tabId) ==
    LET m == {i \in TabLinks : TabLinkHref[i] = <<"#">> \o tabId}
    IN  IF m = {} THEN 0 ELSE CHOOSE i \in m : \A j \in m : i <= j

\* the selected panel toggled instead of shown
switchTabToggle(tabId) ==
    LET selectedTab == QuerySelectorHref(tabId)
    IN  /\ hidden' = [p \in Panels |-> IF p = tabId THEN ~hidden[p] ELSE TRUE]
        /\ active' = [i \in TabLinks |-> i = selectedTab]

switchTab(tabId) ==
    LET selectedTab == QuerySelectorHref(tabId)
    IN  /\ hidden' = [p \in Panels |-> p # tabId]
        /\ active' = [i \in TabLinks |-> i = selectedTab]

(***************************************************************************)
(* JSON values the backend may send.  A body is JSON null or an object     *)
(* with an optional error string and an optional data field (blogs or      *)
(* articles); error = "" stands for an absent (or falsy) error, tag says   *)
(* whether the data field is absent, a list, or a truthy non-array value   *)
(* with a positive length (a string).                                      *)
(***************************************************************************)
NoRewrite == [present |-> FALSE, content |-> ""]

NullItem == [isNull |-> TRUE, id |-> "", title |-> "", content |-> "",
             schedule |-> "", rewritten |-> NoRewrite]

Article1 == [isNull |-> FALSE, id |-> "1", title |-> "A", content |-> "x",
             schedule |-> "", rewritten |-> NoRewrite]

Article2 == [isNull |-> FALSE, id |-> "2", title |-> "B", content |-> "y",
             schedule |-> "Mon 10:00",
             rewritten |-> [present |-> TRUE, content |-> "y2"]]

ArticleItems == {Article1, Article2, NullItem}

NullBlog == [isNull |-> TRUE, id |-> "", name |-> ""]

Blog1 == [isNull |-> FALSE, id |-> "b1", name |-> "Blog One"]

BlogItems == {Blog1, NullBlog}

SeqUpTo(S, n) == UNION {[1..k -> S] : k \in 0..n}

\* the lists of at most n elements of Items in which a null element, if
\* there is one, comes last (the loops over a list stop at its first null)
Lists(Items, n) ==
    LET Ok == {x \in Items : ~x.isNull}
    IN  SeqUpTo(Ok, n) \cup
        {Append(l, x) : l \in SeqUpTo(Ok, n - 1), x \in Items \ Ok}

NullBody == [isNull |-> TRUE, error |-> "", tag |-> "absent", items |-> <<>>]

ServerError == "Sitemap unreachable"

\* the bodies whose data field holds elements of Items, at most n of them
Bodies(Items, n) ==
    {NullBody} \cup
    {[isNull |-> FALSE, error |-> e, tag |-> "absent", items |-> <<>>] :
        e \in {"", ServerError}} \cup
    {[isNull |-> FALSE, error |-> "", tag |-> "nonarray", items |-> <<>>]} \cup
    {[isNull |-> FALSE, error |-> "", tag |-> "list", items |-> l] :
        l \in Lists(Items, n)} \cup
    {[isNull |-> FALSE, error |-> ServerError, tag |-> "list", items |-> <<>>]}

\* what `await response.json()` settles with: a rejection or a parsed body
JsonResults(Items, n) ==
    {[rejected |-> TRUE, body |-> NullBody]} \cup
    {[rejected |-> FALSE, body |-> b] : b \in Bodies(Items, n)}

\* message of the TypeError / SyntaxError / network error the runtime raises
TypeErrorMessage == "TypeError"

SyntaxErrorMessage == "SyntaxError"

NetworkErrorMessage == "Failed to fetch"

(***************************************************************************)
(* Sitemap URLs, as the pieces the URL parser looks at.                    *)
(***************************************************************************)
DefaultSitemapUrl == <<"https", ":", "//", "blog.google", "/sitemap.xml">>

SitemapInputs == { <<>>,
                   <<"not a url">>,
                   <<"http", ":", "//", "example.org", "/sitemap.xml">> }

SpecialSchemes == {"http", "https"}

\* new URL(s) without a base: s needs a scheme, and a special scheme a host
URLParses(s) ==
    /\ Len(s) >= 2
    /\ s[1] \in SpecialSchemes
    /\ s[2] = ":"
    /\ Len(s) >= 4
    /\ s[3] = "//"
    /\ s[4] # ""

(***************************************************************************)
(* Notifications and the loading overlay.                                  *)
(***************************************************************************)
showNotification(message, type) == [message |-> message, type |-> type]

\* lines 89-100: one more element with id loadingOverlay, whatever is there
showLoading(ov, message) == ov + 1

\* hideLoading looking up an id no element carries
hideLoadingWrongId(ov) == ov

\* lines 102-107: getElementById finds the first such element, if any
hideLoading(ov) == IF ov > 0 THEN ov - 1 ELSE ov

(***************************************************************************)
(* A handler run works on a frame: the part of the state the workflows     *)
(* write, and what the invocation has done so far (its notifications and   *)
(* its calls of showLoading, hideLoading and fetch).                       *)
(***************************************************************************)
Frame(inv) ==
    [articles |-> articles, rows |-> rows, options |-> options,
     overlay |-> overlay, notes |-> inv.notes, hides |-> inv.hides,
     shows |-> inv.shows, calls |-> inv.calls]

\* an invocation that has just been entered
NewInvocation == [notes |-> <<>>, hides |-> 0, shows |-> 0, calls |-> 0]

Notify(f, message, type) ==
    [f EXCEPT !.notes = Append(@, showNotification(message, type))]

Threw(f, message) == [f |-> f, threw |-> TRUE, message |-> message]

Returned(f) == [f |-> f, threw |-> FALSE, message |-> ""]

\* index of the first null element of a list, Len + 1 if there is none
FirstNull(items) ==
    LET bad == {i \in 1..Len(items) : items[i].isNull}
    IN  IF bad = {} THEN Len(items) + 1
        ELSE CHOOSE i \in bad : \A j \in bad : i <= j

(***************************************************************************)
(* The article table.                                                      *)
(***************************************************************************)
\* the <tr> built for one article; the click listener keeps the article
ArticleRow(article) ==
    [id |-> article.id,
     cells |-> <<article.title,
                 IF article.schedule # "" THEN article.schedule
                                          ELSE "Not scheduled",
                 "Pending">>,
     selected |-> FALSE,
     article |-> article]

\* updateArticlesTable with this.articles = items (a list when isList): the
\* tbody is emptied, then one row is appended per element; forEach on a
\* non-array and the first null element raise a TypeError
updateArticlesTable(isList, items) ==
    LET n == IF isList THEN FirstNull(items) - 1 ELSE 0
    IN  [rows |-> [i \in 1..n |-> ArticleRow(items[i])],
         threw |-> ~isList \/ n < Len(items)]

toggleArticleSelection(row) == [row EXCEPT !.selected = ~@]

\* the preview ignoring the rewritten content
showPreviewOriginal(article) == article.content

showPreview(article) ==
    IF article.rewritten.present THEN article.rewritten.content
                                 ELSE article.content

(***************************************************************************)
(* refreshBlogs                                                            *)
(***************************************************************************)
BlogOption(blog) == [value |-> blog.id, text |-> blog.name]

\* lines 127-142: the statements after `await response.json()` settled
refreshBlogsProcess(f, json) ==
    IF json.rejected THEN Threw(f, SyntaxErrorMessage)
    ELSE IF json.body.isNull THEN Threw(f, TypeErrorMessage)
    ELSE IF json.body.tag = "absent" THEN
        Threw(f, IF json.body.error # "" THEN json.body.error
                                         ELSE "Failed to fetch blogs")
    ELSE IF json.body.tag = "nonarray" THEN
        Threw([f EXCEPT !.options = <<>>], TypeErrorMessage)
    ELSE
        LET items == json.body.items
            n == FirstNull(items) - 1
            g == [f EXCEPT !.options = [i \in 1..n |-> BlogOption(items[i])]]
        IN  IF n < Len(items) THEN Threw(g, TypeErrorMessage)
            ELSE Returned(Notify(g, "Blogs refreshed successfully", "success"))

\* a catch block that drops the error
refreshBlogsCatchSilent(f, message) == f

refreshBlogsCatch(f, message) == Notify(f, message, "error")

refreshBlogsFinally(f) ==
    [f EXCEPT !.overlay = hideLoading(@), !.hides = @ + 1]

\* try { ... } catch { ... } finally { ... } around a run that ends the call
refreshBlogsEnd(r) ==
    refreshBlogsFinally(IF r.threw THEN refreshBlogsCatch(r.f, r.message)
                                   ELSE r.f)

(***************************************************************************)
(* fetchArticles                                                           *)
(***************************************************************************)
\* line 152: the input's value, or the fallback when it is empty
SitemapUrl(input) == IF input # <<>> THEN input ELSE DefaultSitemapUrl

\* this.articles.push(...data.articles) in place of the assignment
fetchArticlesProcessAppend(f, responseOk, json) ==
    IF json.rejected THEN Threw(f, "Invalid response from server")
    ELSE IF json.body.isNull THEN Threw(f, TypeErrorMessage)
    ELSE IF ~responseOk THEN
        Threw(f, IF json.body.error # "" THEN json.body.error
                                         ELSE "Failed to fetch articles")
    ELSE IF json.body.tag = "list" /\ Len(json.body.items) > 0 THEN
        LET all == f.articles \o json.body.items
            t == updateArticlesTable(TRUE, all)
            g == [f EXCEPT !.articles = all, !.rows = t.rows]
        IN  IF t.threw THEN Threw(g, TypeErrorMessage)
            ELSE Returned(Notify(g,
                     "Successfully fetched " \o ToString(Len(json.body.items))
                         \o " articles", "success"))
    ELSE Threw(f, "No articles found in the sitemap")

\* lines 179-196: the statements after `await response.json()` settled
fetchArticlesProcess(f, responseOk, json) ==
    IF json.rejected THEN Threw(f, "Invalid response from server")
    ELSE IF json.body.isNull THEN Threw(f, TypeErrorMessage)
    ELSE IF ~responseOk THEN
        Threw(f, IF json.body.error # "" THEN json.body.error
                                         ELSE "Failed to fetch articles")
    ELSE IF \/ json.body.tag = "nonarray"
            \/ json.body.tag = "list" /\ Len(json.body.items) > 0 THEN
        LET isList == json.body.tag = "list"
            t == updateArticlesTable(isList, json.body.items)
            g == [f EXCEPT !.articles = json.body.items, !.rows = t.rows]
        IN  IF t.threw THEN Threw(g, TypeErrorMessage)
            ELSE Returned(Notify(g,
                     "Successfully fetched " \o ToString(Len(json.body.items))
                         \o " articles", "success"))
    ELSE Threw(f, "No articles found in the sitemap")

\* a catch block that leaves the collection as it is
fetchArticlesCatchKeep(f, message) == Notify(f, message, "error")

\* a catch block that empties the collection and does not render it
fetchArticlesCatchNoRender(f, message) ==
    [Notify(f, message, "error") EXCEPT !.articles = <<>>]

\* a catch block that keeps the collection while another overlay is up
fetchArticlesCatchUnlessBusy(f, message) ==
    IF f.overlay > 1 THEN Notify(f, message, "error")
    ELSE [Notify(f, message, "error") EXCEPT
             !.articles = <<>>,
             !.rows = updateArticlesTable(TRUE, <<>>).rows]

fetchArticlesCatch(f, message) ==
    [Notify(f, message, "error") EXCEPT
        !.articles = <<>>,
        !.rows = updateArticlesTable(TRUE, <<>>).rows]

fetchArticlesFinally(f) ==
    [f EXCEPT !.overlay = hideLoading(@), !.hides = @ + 1]

\* hideLoading as the last statement of try and of no other block
fetchArticlesEndHideInTry(r) ==
    IF r.threw THEN fetchArticlesCatch(r.f, r.message)
               ELSE fetchArticlesFinally(r.f)

fetchArticlesEnd(r) ==
    fetchArticlesFinally(IF r.threw THEN fetchArticlesCatch(r.f, r.message)
                                    ELSE r.f)

\* the URL validated only after showLoading and the fetch call
fetchArticlesEnterLate(f, input) ==
    LET g == [f EXCEPT !.overlay = showLoading(@, "Fetching articles..."),
                       !.shows = @ + 1, !.calls = @ + 1]
    IN  IF URLParses(SitemapUrl(input)) THEN Returned(g)
        ELSE Threw(g, "Please enter a valid URL")

\* lines 151-177: from the click to the first await; Returned means the
\* call is suspended at `await fetch(...)`
fetchArticlesEnter(f, input) ==
    IF SitemapUrl(input) = <<>> THEN Threw(f, "Please enter a sitemap URL")
    ELSE IF ~URLParses(SitemapUrl(input)) THEN
        Threw(f, "Please enter a valid URL")
    ELSE Returned([f EXCEPT
             !.overlay = showLoading(@, "Fetching articles..."),
             !.shows = @ + 1, !.calls = @ + 1])

\* the API key checked only after showLoading and the fetch call
refreshBlogsEnterLate(f, key) ==
    LET g == [f EXCEPT !.overlay = showLoading(@, "Refreshing blogs..."),
                       !.shows = @ + 1, !.calls = @ + 1]
    IN  IF key = "" THEN Threw(g, "Please set your API key first")
        ELSE Returned(g)

\* lines 110-125: from the click to the first await
refreshBlogsEnter(f, key) ==
    IF key = "" THEN Threw(f, "Please set your API key first")
    ELSE Returned([f EXCEPT
             !.overlay = showLoading(@, "Refreshing blogs..."),
             !.shows = @ + 1, !.calls = @ + 1])

(***************************************************************************)
(* The state machine.                                                      *)
(***************************************************************************)
InvOf(f) == [notes |-> f.notes, hides |-> f.hides, shows |-> f.shows,
             calls |-> f.calls]

NoJson == [rejected |-> FALSE, body |-> NullBody]

\* record of a handler run: which handler and which of its steps (the
\* click, the settling of fetch, the settling of json), whether it ended an
\* invocation (done) and how (failed), what made it fail, what the invocation
\* has done, the input and the body it read, whether there were articles
\* before it, and whether it came right after a run of its kind (a
\* switchTab after a switchTab to the same tab, the end of a fetchArticles
\* call after the end of another that it was suspended together with)
Ran(op, step, done, failed, cause, inv, json, input) ==
    [op |-> op, step |-> step, done |-> done, failed |-> failed,
     cause |-> cause, inv |-> inv, json |-> json, input |-> input,
     had |-> articles # <<>>,
     again |-> CASE op = "switchTab" ->
                        last.op = "switchTab" /\ last.input = input
                 [] op = "fetchArticles" /\ done /\ step # "click" ->
                        /\ last.op = "fetchArticles" /\ last.done
                        /\ last.step # "click"
                 [] OTHER -> FALSE]

RanUi(inv) == Ran("ui", "click", FALSE, FALSE, "", inv, NoJson, <<>>)

RanSwitchTab(tabId) ==
    Ran("switchTab", "click", FALSE, FALSE, "", NewInvocation, NoJson, tabId)

RanRowClick(i) ==
    Ran("rowClick", "click", FALSE, FALSE, "", NewInvocation, NoJson, <<i>>)

Commit(f) ==
    /\ articles' = f.articles
    /\ rows' = f.rows
    /\ options' = f.options
    /\ overlay' = f.overlay

Suspended(kind, pc, responseOk, inv) ==
    [kind |-> kind, pc |-> pc, responseOk |-> responseOk, inv |-> inv]

Pending(kind, pc) ==
    {r \in BagToSet(inflight) : r.kind = kind /\ r.pc = pc}

Init ==
    /\ loaded = FALSE
    /\ apiKey = ""
    /\ articles = <<>>
    /\ selectedArticle = "null"
    /\ hidden \in [Panels -> BOOLEAN]
    /\ active \in [TabLinks -> BOOLEAN]
    /\ overlay = 0
    /\ options = <<>>
    /\ rows = <<>>
    /\ preview = ""
    /\ inflight = EmptyBag
    /\ last = RanUi(NewInvocation)

\* lines 8-12
DOMContentLoaded ==
    /\ ~loaded
    /\ loaded' = TRUE
    /\ switchTab(<<"settings">>)
    /\ last' = RanSwitchTab(<<"settings">>)
    /\ UNCHANGED <<apiKey, articles, selectedArticle, overlay, options, rows,
                   preview, inflight>>

\* lines 17-20; value is what the #apiKey input holds
SaveApiKey(value) ==
    /\ loaded
    /\ apiKey' = value
    /\ last' = RanUi(InvOf(Notify(Frame(NewInvocation),
                                  "API key saved successfully", "success")))
    /\ UNCHANGED <<loaded, articles, selectedArticle, hidden, active, overlay,
                   options, rows, preview, inflight>>

\* lines 39-49: click on the i-th .tab-link
TabClick(i) ==
    /\ loaded
    /\ IF TabLinkHref[i] # <<>>
          THEN switchTab(StrReplaceFirst(TabLinkHref[i], "#"))
          ELSE UNCHANGED <<hidden, active>>
    /\ last' = IF TabLinkHref[i] # <<>>
                  THEN RanSwitchTab(StrReplaceFirst(TabLinkHref[i], "#"))
                  ELSE RanUi(NewInvocation)
    /\ UNCHANGED <<loaded, apiKey, articles, selectedArticle, overlay, options,
                   rows, preview, inflight>>

\* a click that selects its row and deselects every other row
RowClickSingleSelect(i) ==
    /\ loaded
    /\ i \in DOMAIN rows
    /\ rows' = [j \in DOMAIN rows |->
                  [rows[j] EXCEPT !.selected = (j = i) /\ ~rows[i].selected]]
    /\ preview' = showPreview(rows[i].article)
    /\ last' = RanRowClick(i)
    /\ UNCHANGED <<loaded, apiKey, articles, selectedArticle, hidden, active,
                   overlay, options, inflight>>

\* lines 228-231: click on the i-th row of the table
RowClick(i) ==
    /\ loaded
    /\ i \in DOMAIN rows
    /\ rows' = [rows EXCEPT ![i] = toggleArticleSelection(@)]
    /\ preview' = showPreview(rows[i].article)
    /\ last' = RanRowClick(i)
    /\ UNCHANGED <<loaded, apiKey, articles, selectedArticle, hidden, active,
                   overlay, options, inflight>>

\* line 30 and lines 109-125: click on #refreshBlogs
RefreshBlogs ==
    /\ loaded
    /\ LET r == refreshBlogsEnter(Frame(NewInvocation), apiKey)
       IN  IF r.threw
           THEN LET f == refreshBlogsEnd(r)
                IN  /\ Commit(f)
                    /\ last' = Ran("refreshBlogs", "click", TRUE, TRUE,
                                   "apiKey", InvOf(f), NoJson, <<>>)
                    /\ UNCHANGED inflight
           ELSE /\ BagCardinality(inflight) < MaxInFlight
                /\ Commit(r.f)
                /\ inflight' = inflight (+) SetToBag(
                       {Suspended("refreshBlogs", "fetch", FALSE, InvOf(r.f))})
                /\ last' = Ran("refreshBlogs", "click", FALSE, FALSE, "",
                               InvOf(r.f), NoJson, <<>>)
    /\ UNCHANGED <<loaded, apiKey, selectedArticle, hidden, active, preview>>

\* line 117: the fetch of a suspended refreshBlogs settles
BlogsFetchSettled(rec, rejected) ==
    /\ rec \in Pending("refreshBlogs", "fetch")
    /\ IF rejected
       THEN LET f == refreshBlogsEnd(Threw(Frame(rec.inv),
                                           NetworkErrorMessage))
            IN  /\ Commit(f)
                /\ inflight' = inflight (-) SetToBag({rec})
                /\ last' = Ran("refreshBlogs", "fetch", TRUE, TRUE,
                               "network", InvOf(f), NoJson, <<>>)
       ELSE /\ inflight' = (inflight (-) SetToBag({rec})) (+)
                               SetToBag({[rec EXCEPT !.pc = "json"]})
            /\ last' = Ran("refreshBlogs", "fetch", FALSE, FALSE, "", rec.inv,
                           NoJson, <<>>)
            /\ UNCHANGED <<articles, rows, options, overlay>>
    /\ UNCHANGED <<loaded, apiKey, selectedArticle, hidden, active, preview>>

\* lines 127-147: response.json() of a suspended refreshBlogs settles
BlogsJsonSettled(rec, json) ==
    /\ rec \in Pending("refreshBlogs", "json")
    /\ LET r == refreshBlogsProcess(Frame(rec.inv), json)
           f == refreshBlogsEnd(r)
       IN  /\ Commit(f)
           /\ inflight' = inflight (-) SetToBag({rec})
           /\ last' = Ran("refreshBlogs", "json", TRUE, r.threw, "json",
                          InvOf(f), json, <<>>)
    /\ UNCHANGED <<loaded, apiKey, selectedArticle, hidden, active, preview>>

\* line 33 and lines 150-177: click on #fetchArticles; input is what the
\* #sitemapUrl input holds
FetchArticles(input) ==
    /\ loaded
    /\ LET r == fetchArticlesEnter(Frame(NewInvocation), input)
       IN  IF r.threw
           THEN LET f == fetchArticlesEnd(r)
                IN  /\ Commit(f)
                    /\ last' = Ran("fetchArticles", "click", TRUE, TRUE,
                                   "url", InvOf(f), NoJson, input)
                    /\ UNCHANGED inflight
           ELSE /\ BagCardinality(inflight) < MaxInFlight
                /\ Commit(r.f)
                /\ inflight' = inflight (+) SetToBag(
                       {Suspended("fetchArticles", "fetch", FALSE, InvOf(r.f))})
                /\ last' = Ran("fetchArticles", "click", FALSE, FALSE, "",
                               InvOf(r.f), NoJson, input)
    /\ UNCHANGED <<loaded, apiKey, selectedArticle, hidden, active, preview>>

\* line 169: the fetch of a suspended fetchArticles settles: it rejects, or
\* resolves with a response whose ok flag is responseOk
ArticlesFetchSettled(rec, rejected, responseOk) ==
    /\ rec \in Pending("fetchArticles", "fetch")
    /\ IF rejected
       THEN LET f == fetchArticlesEnd(Threw(Frame(rec.inv),
                                            NetworkErrorMessage))
            IN  /\ ~responseOk
                /\ Commit(f)
                /\ inflight' = inflight (-) SetToBag({rec})
                /\ last' = Ran("fetchArticles", "fetch", TRUE, TRUE,
                               "network", InvOf(f), NoJson, <<>>)
       ELSE /\ inflight' = (inflight (-) SetToBag({rec})) (+)
                   SetToBag({[rec EXCEPT !.pc = "json",
                                         !.responseOk = responseOk]})
            /\ last' = Ran("fetchArticles", "fetch", FALSE, FALSE, "", rec.inv,
                           NoJson, <<>>)
            /\ UNCHANGED <<articles, rows, options, overlay>>
    /\ UNCHANGED <<loaded, apiKey, selectedArticle, hidden, active, preview>>

\* lines 179-205: response.json() of a suspended fetchArticles settles
ArticlesJsonSettled(rec, json) ==
    /\ rec \in Pending("fetchArticles", "json")
    /\ LET r == fetchArticlesProcess(Frame(rec.inv), rec.responseOk, json)
           f == fetchArticlesEnd(r)
       IN  /\ Commit(f)
           /\ inflight' = inflight (-) SetToBag({rec})
           /\ last' = Ran("fetchArticles", "json", TRUE, r.threw,
                          IF rec.responseOk THEN "json" ELSE "status",
                          InvOf(f), json, <<>>)
    /\ UNCHANGED <<loaded, apiKey, selectedArticle, hidden, active, preview>>

ApiKeyInputs == {"", "secret"}

BlogJsonResults == JsonResults(BlogItems, MaxBlogs)

ArticleJsonResults == JsonResults(ArticleItems, MaxList)

\* with a non-ok status: after it the code reads nothing but data.error, and
\* the data field is absent or holds at most one article
NotOkArticleJsonResults ==
    {j \in ArticleJsonResults :
        j.body.tag = "list" => /\ Len(j.body.items) <= 1
                               /\ FirstNull(j.body.items) > Len(j.body.items)}

\* settling of the promises the suspended invocations await
BlogsSettled ==
    \/ \E rec \in Pending("refreshBlogs", "fetch"), rejected \in BOOLEAN :
           BlogsFetchSettled(rec, rejected)
    \/ \E rec \in Pending("refreshBlogs", "json"), json \in BlogJsonResults :
           BlogsJsonSettled(rec, json)

ArticlesSettled ==
    \/ \E rec \in Pending("fetchArticles", "fetch"),
          rejected, responseOk \in BOOLEAN :
           ArticlesFetchSettled(rec, rejected, responseOk)
    \/ \E rec \in Pending("fetchArticles", "json") :
          \E json \in IF rec.responseOk THEN ArticleJsonResults
                                         ELSE NotOkArticleJsonResults :
             ArticlesJsonSettled(rec, json)

\* the two workflows and the API key they read
NextWorkflows ==
    \/ DOMContentLoaded
    \/ \E value \in ApiKeyInputs : SaveApiKey(value)
    \/ RefreshBlogs
    \/ BlogsSettled
    \/ \E input \in SitemapInputs : FetchArticles(input)
    \/ ArticlesSettled

\* the article table and the preview, with the workflow that fills the table
NextView ==
    \/ DOMContentLoaded
    \/ \E i \in 1..(MaxList + 1) : RowClick(i)
    \/ \E input \in SitemapInputs : FetchArticles(input)
    \/ ArticlesSettled

\* the tabs, switched while the blog workflow runs
NextTabs ==
    \/ DOMContentLoaded
    \/ \E i \in TabLinks : TabClick(i)
    \/ \E value \in ApiKeyInputs : SaveApiKey(value)
    \/ RefreshBlogs
    \/ BlogsSettled

Next == NextWorkflows \/ NextView \/ NextTabs

\* the whole controller
Spec == Init /\ [][Next]_vars

\* TabClick writes only hidden and active, RowClick only preview and the
\* selected toggle of a row, and no workflow reads any of these: the
\* workflows are checked without them,
SpecWorkflows == Init /\ [][NextWorkflows]_vars

\* the table and the preview are checked without the blog workflow, which
\* writes only options and the overlay and reads only apiKey,
SpecView == Init /\ [][NextView]_vars

\* and the tabs are checked with the blog workflow alone.
SpecTabs == Init /\ [][NextTabs]_vars

\* fetchArticles calls racing each other, with nothing else going on
NextRace ==
    \/ DOMContentLoaded
    \/ \E input \in SitemapInputs : FetchArticles(input)
    \/ ArticlesSettled

\* a pending fetch or response.json() promise settles sooner or later
SpecRace == Init /\ [][NextRace]_vars /\ WF_vars(ArticlesSettled)

(***************************************************************************)
(* Properties.  `last` describes the handler run that produced the state,  *)
(* so a property of the form  last... => P  says what holds right after    *)
(* such a run, and one of the form  [][last'... => A]_vars  says what such *)
(* a run changes.                                                          *)
(***************************************************************************)
InFlight == BagToSet(inflight)

ErrorNote(message) == showNotification(message, "error")

\* C1: in every reachable state at most one loading overlay exists in the
\* document (showLoading while one is present never leaves two).
C1_AtMostOneOverlay == overlay <= 1

\* C2: every invocation of refreshBlogs or fetchArticles has run hideLoading
\* exactly once when it completes, on every exit path, and not before.
C2_HideLoadingExactlyOnce ==
    /\ (last.op \in {"refreshBlogs", "fetchArticles"} /\ last.done)
           => last.inv.hides = 1
    /\ \A rec \in InFlight : rec.inv.hides = 0

\* a fetchArticles that showed its overlay and then failed on an unparsable
\* body has completed
C2_Witness ==
    /\ last.op = "fetchArticles" /\ last.done /\ last.failed
    /\ last.json.rejected /\ last.inv.shows = 1

\* C3: whenever no refreshBlogs or fetchArticles invocation is in flight, no
\* loading overlay is present.
C3_IdleMeansNoOverlay == inflight = EmptyBag => overlay = 0

\* the last of the invocations in flight, one that had shown an overlay,
\* has completed
C3_Witness ==
    /\ inflight = EmptyBag
    /\ last.done /\ last.inv.shows = 1 /\ last.inv.hides = 1

FetchFailureCauses == {"network", "status", "json"}

\* C4: when a fetchArticles invocation fails after its network call
\* (rejected call, non-ok status, unparsable body, ok response without a
\* non-empty article list), articles is empty and the table has no rows on
\* its completion, whatever the collection held before.
C4_FetchFailureClears ==
    (/\ last.op = "fetchArticles" /\ last.done /\ last.failed
     /\ last.cause \in FetchFailureCauses)
        => articles = <<>> /\ rows = <<>>

\* a fetch failed on a non-ok status while the collection was not empty
C4_Witness ==
    /\ last.op = "fetchArticles" /\ last.done /\ last.failed
    /\ last.cause = "status" /\ last.had
    /\ articles = <<>>

\* the run that produced the next state is a fetchArticles click on a
\* sitemap URL that does not parse
InvalidUrlClick(l) ==
    /\ l.op = "fetchArticles" /\ l.step = "click"
    /\ ~URLParses(SitemapUrl(l.input))

FailsLocally(l, message) ==
    /\ l.done /\ l.failed
    /\ l.inv.calls = 0
    /\ l.inv.notes = <<ErrorNote(message)>>

\* C5 as stated: fetchArticles on a sitemap URL that does not parse issues no
\* network call, shows exactly one invalid-URL error notification and leaves
\* articles unchanged.
C5_InvalidUrlKeepsArticles ==
    [][InvalidUrlClick(last')
          => /\ FailsLocally(last', "Please enter a valid URL")
             /\ articles' = articles]_vars

\* C5 amended: fetchArticles on a sitemap URL that does not parse issues no
\* network call, shows exactly one invalid-URL error notification, and
\* leaves articles empty and the table without rows.
C5_InvalidUrlClearsArticles ==
    InvalidUrlClick(last)
        => /\ FailsLocally(last, "Please enter a valid URL")
           /\ articles = <<>> /\ rows = <<>>

\* an unparsable URL was submitted while the collection was not empty
C5_Witness == InvalidUrlClick(last) /\ last.had

\* C6: when a fetchArticles invocation succeeds, articles is exactly the
\* returned non-empty list, in the backend's order, nothing of the previous
\* collection retained.
C6_FetchSuccessReplaces ==
    (last.op = "fetchArticles" /\ last.done /\ ~last.failed)
        => /\ last.json.body.tag = "list"
           /\ last.json.body.items # <<>>
           /\ articles = last.json.body.items

\* a fetch returning two articles succeeded over a collection that had some
C6_Witness ==
    /\ last.op = "fetchArticles" /\ last.done /\ ~last.failed
    /\ last.had
    /\ articles = <<Article2, Article1>>

\* C7: refreshBlogs invoked while apiKey is empty fails at once: no network
\* call, no loading overlay shown, exactly one error notification, the one
\* about the API key.
C7_EmptyApiKeyFailsAtOnce ==
    (last.op = "refreshBlogs" /\ last.step = "click" /\ apiKey = "")
        => /\ FailsLocally(last, "Please set your API key first")
           /\ last.inv.shows = 0

\* refreshBlogs was clicked with no API key set
C7_Witness ==
    /\ last.op = "refreshBlogs" /\ last.step = "click" /\ apiKey = ""
    /\ last.done

\* C8: a refreshBlogs invocation that ends in an error notification leaves
\* the option list of the blog selector as it was.
C8_FailedRefreshKeepsOptions ==
    [][(last'.op = "refreshBlogs" /\ last'.done /\ last'.failed)
          => options' = options]_vars

\* C9: each completed invocation of refreshBlogs or fetchArticles has
\* produced exactly one notification, an error one if it failed and a
\* success one if it succeeded, and none before it completes.
C9_ExactlyOneNotification ==
    /\ (last.op \in {"refreshBlogs", "fetchArticles"} /\ last.done)
           => /\ Len(last.inv.notes) = 1
              /\ last.inv.notes[1].type =
                     IF last.failed THEN "error" ELSE "success"
    /\ \A rec \in InFlight : rec.inv.notes = <<>>

\* a refreshBlogs failed on a body that was JSON null
C9_Witness ==
    /\ last.op = "refreshBlogs" /\ last.done /\ last.failed
    /\ ~last.json.rejected /\ last.json.body.isNull /\ last.step = "json"

VisiblePanels == {p \in Panels : ~hidden[p]}

ActiveTabLinks == {i \in TabLinks : active[i]}

\* C10: after the initial switchTab('settings') and any later switchTab,
\* with a known or an unknown identifier, exactly one panel is visible and
\* exactly one tab control carries the active styling.
C10_ExactlyOnePanelAndTab ==
    loaded => /\ Cardinality(VisiblePanels) = 1
              /\ Cardinality(ActiveTabLinks) = 1

\* the run that produced the state was a switchTab
SwitchedTab(l) == l.op = "switchTab"

\* C11: switchTab with an identifier of no known tab changes no content
\* panel: the visible and the hidden panels are the same after it as before.
C11_UnknownTabKeepsPanels ==
    [][(SwitchedTab(last') /\ last'.input \notin Panels)
          => hidden' = hidden]_vars

\* C12: switchTab is idempotent: a second switchTab(t) right after a first
\* leaves the visible panel and the styling of every tab control as the
\* first left them.
C12_SwitchTabIdempotent ==
    [][(SwitchedTab(last') /\ last'.again)
          => hidden' = hidden /\ active' = active]_vars

\* the articles tab was switched to twice in a row
C12_Witness ==
    /\ SwitchedTab(last) /\ last.again
    /\ last.input = <<"articles">>
    /\ ~hidden[<<"articles">>]

\* C13: in every reachable state the table has one row per article of the
\* collection, the i-th row carrying the id of the i-th article.
C13_TableProjectsArticles ==
    /\ Len(rows) = Len(articles)
    /\ \A i \in DOMAIN rows : rows[i].id = articles[i].id

\* two articles are rendered, in the backend's order, one row toggled
C13_Witness ==
    /\ articles = <<Article2, Article1>>
    /\ Len(rows) = 2 /\ rows[1].selected /\ ~rows[2].selected

\* C14: a click on an article row leaves articles, apiKey, the loading
\* overlay, the active tab and every other row as they were; it changes only
\* the selected toggle of that row and the preview.
C14_RowClickFrame ==
    [][last'.op = "rowClick"
          => LET i == last'.input[1]
             IN  /\ articles' = articles
                 /\ apiKey' = apiKey
                 /\ overlay' = overlay
                 /\ hidden' = hidden /\ active' = active
                 /\ options' = options /\ inflight' = inflight
                 /\ DOMAIN rows' = DOMAIN rows
                 /\ i \in DOMAIN rows
                 /\ rows'[i] = [rows[i] EXCEPT !.selected = ~@]
                 /\ \A j \in DOMAIN rows : j # i => rows'[j] = rows[j]]_vars

\* a row was clicked while another row was selected and a fetch was pending
C14_Witness ==
    /\ last.op = "rowClick"
    /\ overlay > 0
    /\ \E j \in DOMAIN rows : j # last.input[1] /\ rows[j].selected

\* a call of fetchArticles ended, after its network call, in this run
FetchEnded(l) == l.op = "fetchArticles" /\ l.done /\ l.step # "click"

FetchesInFlight == {r \in InFlight : r.kind = "fetchArticles"}

C16_UniqueIds ==
    \A i, j \in DOMAIN articles : articles[i].id = articles[j].id => i = j

\* the parsed body carries an error message and no data
ErrorBody(l) ==
    /\ l.step = "json" /\ ~l.json.rejected /\ ~l.json.body.isNull
    /\ l.json.body.error # ""
    /\ \/ l.json.body.tag = "absent"
       \/ l.op = "fetchArticles" /\ l.json.body.items = <<>>

\* C17: a fetchArticles or refreshBlogs call that fails on a body carrying a
\* server error message and no data shows that message, and a fetchArticles
\* call that fails on a non-JSON body shows 'Invalid response from server'.
C17_ServerMessageShown ==
    (last.op \in {"refreshBlogs", "fetchArticles"} /\ last.done /\ last.failed)
        => /\ ErrorBody(last)
               => last.inv.notes = <<ErrorNote(last.json.body.error)>>
           /\ (last.op = "fetchArticles" /\ last.step = "json"
                  /\ last.json.rejected)
               => last.inv.notes = <<ErrorNote("Invalid response from server")>>

\* C18: right after a row click the preview shows the content of the clicked
\* article, the rewritten content if it has one, whichever way the click
\* turned the toggle of the row.
C18_PreviewShowsClicked ==
    last.op = "rowClick"
        => LET a == articles[last.input[1]]
           IN  preview = IF a.rewritten.present THEN a.rewritten.content
                                                ELSE a.content

\* the row of the rewritten article was clicked a second time
C18_Witness ==
    /\ last.op = "rowClick"
    /\ ~rows[last.input[1]].selected
    /\ articles[last.input[1]] = Article2
    /\ preview = "y2"

\* C19: while a refreshBlogs or fetchArticles call is suspended at its
\* network call, a loading overlay is present.
C19_InFlightKeepsOverlay == inflight # EmptyBag => overlay > 0

\* C20: whenever the preview shows the content of an article, that article
\* is in the articles collection.
C20_PreviewedArticleInCollection ==
    preview # ""
        => \E i \in DOMAIN articles :
              preview = IF articles[i].rewritten.present
                            THEN articles[i].rewritten.content
                            ELSE articles[i].content

====
